---- MODULE Spec2Model ----
(***************************************************************************)
(* Model of cmd/orb.go of circleci-cli: the three orb sub-commands.        *)
(*   orb list      listOrbs        cursor driven pagination loop           *)
(*   orb validate  validateOrb     load, query, interpret                  *)
(*   orb expand    expandOrb       load, query, interpret                  *)
(* One process invocation runs exactly one command (cobra dispatch).       *)
(*                                                                         *)
(* Strings whose content matters (error messages, documents, paths) are    *)
(* sequences of one-character strings, so that concatenation, prefixes and *)
(* containment are computed and not assumed.  Cursors and orb names are    *)
(* opaque and are kept as atoms.                                           *)
(***************************************************************************)
EXTENDS Naturals, Sequences, FiniteSets, TLC

\* ------------------------------------------------------------------ bounds
\* round-trips of listOrbs that the trace variables record
MaxRoundTrips == 3
\* edges in one page of the server
MaxEdges == 2
\* entries of OrbConfig.Errors in one validation response
MaxErrors == 2

\* ------------------------------------------------------- string literals
StrGraphQLQueryFailed ==
  <<"G","r","a","p","h","Q","L"," ","q","u","e","r","y"," ",
    "f","a","i","l","e","d">>

StrUnableToValidateOrb ==
  <<"U","n","a","b","l","e"," ","t","o"," ","v","a","l","i","d","a","t","e",
    " ","o","r","b">>

StrCouldNotLoadOrbFileAt ==
  <<"C","o","u","l","d"," ","n","o","t"," ","l","o","a","d"," ","o","r","b",
    " ","f","i","l","e"," ","a","t"," ">>

StrOrbAt == <<"O","r","b"," ","a","t"," ">>

StrIsValid == <<" ","i","s"," ","v","a","l","i","d">>

StrOrbColon == <<"O","r","b",":"," ">>

StrDefaultPath == <<"o","r","b",".","y","m","l">>

\* ------------------------------------------------------------ input sets
\* values of the --path flag (default orb.yml)
Paths == {StrDefaultPath, <<"x">>}

\* contents of the local orb file
Docs == {<<"x",":"," ","1">>, <<>>}

\* OutputYaml values of the server
Yamls == {<<"x",":"," ","1">>, <<"y">>}

\* messages of the errors the transport returns; the second one has the shape
\* of an aggregated validation message
TransportErrs == {<<"E">>, <<"\n","-","-"," ","a",",","\n">>}

\* messages of the errors ioutil.ReadFile returns
ReadErrs == {<<"n","o"," ","f","i","l","e">>}

\* server-reported validation messages
Messages == {<<"a">>, <<"b">>, <<>>, <<",","\n">>}

\* edges (cursor, node.name) the server hands out
EdgeSet ==
  { [cursor |-> "c1", name |-> "a"],
    [cursor |-> "c2", name |-> "b"] }

SeqsUpTo(S, n) == UNION { [1..k -> S] : k \in 0..n }

\* ------------------------------------------------------------ error values
\* the nil error
Nil == [status |-> "nil", msg |-> <<>>, cause |-> <<>>, wrapped |-> FALSE]

\* no return value yet: the command is still running
Running == [status |-> "running", msg |-> <<>>, cause |-> <<>>, wrapped |-> FALSE]

\* errors.New(msg) and the errors of the collaborators
ErrorsNew(m) == [status |-> "error", msg |-> m, cause |-> <<>>, wrapped |-> FALSE]

\* variant of ErrorsWrap: the cause is returned as it came, without context
ErrorsWrapNoContext(e, context) == e

\* errors.Wrap(err, context): "<context>: <err>"
ErrorsWrap(e, context) ==
  [status |-> "error", msg |-> context \o <<":", " ">> \o e.msg,
   cause |-> e.msg, wrapped |-> TRUE]

\* ------------------------------------------------------- response shapes
\* zero value of orbList
ZeroOrbList == [edges |-> <<>>, hnp |-> FALSE]

\* zero value of orbConfigResponse
ZeroOrbConfig == [valid |-> FALSE, outputYaml |-> <<>>, errors |-> <<>>]

\* what one round-trip of client.Run delivers.  kind "ok": Run returns nil,
\* kind "fail": Run returns an error.  data = FALSE: the payload carries no
\* orbs object (null or absent), so decoding writes nothing into the target.
ListResponses ==
  { [kind |-> k, data |-> d, edges |-> e, hnp |-> h] :
      k \in {"ok", "fail"}, d \in BOOLEAN,
      e \in SeqsUpTo(EdgeSet, MaxEdges), h \in BOOLEAN }

\* one canonical representative for the payloads without data
ListResponse(r) == r \in ListResponses /\ (~r.data => (r.edges = <<>> /\ ~r.hnp))

\* decoding a payload into the reused result variable
DecodeInto(target, r) ==
  IF r.data THEN [edges |-> r.edges, hnp |-> r.hnp] ELSE target

OrbConfigs ==
  { [valid |-> v, outputYaml |-> y, errors |-> es] :
      v \in BOOLEAN, y \in Yamls, es \in SeqsUpTo(Messages, MaxErrors) }

\* ------------------------------------------------------------------ state
VARIABLES
  command,        \* the sub-command that runs
  pc,             \* position of the command
  ret,            \* value returned to cobra (Running until it returns)
  logged,         \* lines written with Logger.Info/Infof, in order
  orbPath,        \* the package variable orbPath (--path)
  \* listOrbs
  after,          \* request variable "after" of the request object
  currentCursor,  \* local currentCursor
  result,         \* local result, reused by every round-trip
  idx,            \* edges of result already ranged over
  outstanding,    \* requests sent whose response has not arrived
  \* listOrbs, trace
  traced,         \* whether the trace variables record
  sent,           \* "after" of every request issued, in order
  pages,          \* every response received, in order
  cursorBefore,   \* currentCursor when each response arrived
  snap,           \* logged when each response arrived
  \* orbValidateQuery, validateOrb, expandOrb
  response,       \* local response of orbValidateQuery
  qres,           \* whether orbValidateQuery returned a non-nil *response
  qerr,           \* error returned by orbValidateQuery
  apiErr,         \* error returned by queryAPI (Nil when it was not called)
  queries,        \* "orb" variable of every validation query issued
  read            \* what every ioutil.ReadFile(orbPath) delivered

vars ==
  <<command, pc, ret, logged, orbPath, after, currentCursor, result, idx,
    outstanding, traced, sent, pages, cursorBefore, snap, response, qres,
    qerr, apiErr, queries, read>>

listVars == <<after, currentCursor, result, idx, outstanding, sent, pages,
              cursorBefore, snap>>

valVars == <<response, qres, qerr, apiErr, queries, read>>

InitCommon ==
  /\ command \in {"list", "validate", "expand"}
  /\ pc = IF command = "list" THEN "loop" ELSE "call"
  /\ ret = Running
  /\ logged = <<>>
  /\ orbPath \in Paths
  /\ after = ""
  /\ currentCursor = ""
  /\ result = ZeroOrbList
  /\ idx = 0
  /\ outstanding = 0
  /\ sent = <<>>
  /\ pages = <<>>
  /\ cursorBefore = <<>>
  /\ snap = <<>>
  /\ response = ZeroOrbConfig
  /\ qres = FALSE
  /\ qerr = Nil
  /\ apiErr = Nil
  /\ queries = <<>>
  /\ read = <<>>

Init == InitCommon /\ traced = TRUE

InitUntraced == InitCommon /\ traced = FALSE

\* ---------------------------------------------------------------- listOrbs
\* the line Logger.Infof("Orb: %s\n", name) writes
OrbLine(name) == StrOrbColon \o <<name>> \o <<"\n">>

\* variant of ListRequest: the next page is requested as soon as the page in
\* hand announces one, before its edges have been ranged over
ListRequestEarly ==
  /\ command = "list"
  /\ pc = "loop" \/ (pc = "edges" /\ result.hnp)
  /\ traced => Len(sent) < MaxRoundTrips
  /\ after' = currentCursor
  /\ outstanding' = outstanding + 1
  /\ pc' = "run"
  /\ sent' = IF traced THEN Append(sent, after') ELSE sent
  /\ UNCHANGED <<command, ret, logged, orbPath, currentCursor, result, idx,
                 traced, pages, cursorBefore, snap>>
  /\ UNCHANGED valVars

\* request.Var("after", currentCursor); client.Run sends the request
ListRequest ==
  /\ command = "list" /\ pc = "loop"
  /\ traced => Len(sent) < MaxRoundTrips
  /\ after' = currentCursor
  /\ outstanding' = outstanding + 1
  /\ pc' = "run"
  /\ sent' = IF traced THEN Append(sent, after') ELSE sent
  /\ UNCHANGED <<command, ret, logged, orbPath, currentCursor, result, idx,
                 traced, pages, cursorBefore, snap>>
  /\ UNCHANGED valVars

\* variant of ListRun: the error of client.Run is not tested
ListRunIgnoresError ==
  /\ command = "list" /\ pc = "run"
  /\ \E r \in ListResponses, e \in TransportErrs :
       /\ ListResponse(r)
       /\ r.kind = "ok" => e = CHOOSE x \in TransportErrs : TRUE
       /\ result' = DecodeInto(result, r)
       /\ outstanding' = outstanding - 1
       /\ idx' = 0
       /\ IF traced
            THEN /\ pages' = Append(pages, r)
                 /\ cursorBefore' = Append(cursorBefore, currentCursor)
                 /\ snap' = Append(snap, logged)
            ELSE UNCHANGED <<pages, cursorBefore, snap>>
       /\ ret' = ret
       /\ pc' = "edges"
  /\ UNCHANGED <<command, logged, orbPath, after, currentCursor, traced, sent>>
  /\ UNCHANGED valVars

\* client.Run returns: the payload is decoded into result, then err is tested
ListRun ==
  /\ command = "list" /\ pc = "run"
  /\ \E r \in ListResponses, e \in TransportErrs :
       /\ ListResponse(r)
       /\ r.kind = "ok" => e = CHOOSE x \in TransportErrs : TRUE
       /\ result' = DecodeInto(result, r)
       /\ outstanding' = outstanding - 1
       /\ idx' = 0
       /\ IF traced
            THEN /\ pages' = Append(pages, r)
                 /\ cursorBefore' = Append(cursorBefore, currentCursor)
                 /\ snap' = Append(snap, logged)
            ELSE UNCHANGED <<pages, cursorBefore, snap>>
       /\ IF r.kind = "fail"
            THEN /\ ret' = ErrorsWrap(ErrorsNew(e), StrGraphQLQueryFailed)
                 /\ pc' = "done"
            ELSE /\ ret' = ret
                 /\ pc' = "edges"
  /\ UNCHANGED <<command, logged, orbPath, after, currentCursor, traced, sent>>
  /\ UNCHANGED valVars

\* variant of ListEdge: only the first edge of a page sets currentCursor
ListEdgeFirstCursor ==
  /\ command = "list" /\ pc = "edges"
  /\ idx < Len(result.edges)
  /\ currentCursor' = IF idx = 0 THEN result.edges[1].cursor ELSE currentCursor
  /\ logged' = IF traced THEN Append(logged, OrbLine(result.edges[idx + 1].name))
                         ELSE logged
  /\ idx' = idx + 1
  /\ UNCHANGED <<command, pc, ret, orbPath, after, result, outstanding, traced,
                 sent, pages, cursorBefore, snap>>
  /\ UNCHANGED valVars

\* one iteration of: for i := range result.Orbs.Edges
ListEdge ==
  /\ command = "list" /\ pc = "edges"
  /\ idx < Len(result.edges)
  /\ currentCursor' = result.edges[idx + 1].cursor
  /\ logged' = IF traced THEN Append(logged, OrbLine(result.edges[idx + 1].name))
                         ELSE logged
  /\ idx' = idx + 1
  /\ UNCHANGED <<command, pc, ret, orbPath, after, result, outstanding, traced,
                 sent, pages, cursorBefore, snap>>
  /\ UNCHANGED valVars

\* variant of ListCheck: the loop body ends with an unconditional break
ListCheckBreaksAlways ==
  /\ command = "list" /\ pc = "edges"
  /\ idx = Len(result.edges)
  /\ pc' = "done" /\ ret' = Nil
  /\ UNCHANGED <<command, logged, orbPath, after, currentCursor, result, idx,
                 outstanding, traced, sent, pages, cursorBefore, snap>>
  /\ UNCHANGED valVars

\* variant of ListCheck: a page without edges ends the loop as well
ListCheckBreaksOnEmpty ==
  /\ command = "list" /\ pc = "edges"
  /\ idx = Len(result.edges)
  /\ IF ~result.hnp \/ result.edges = <<>>
       THEN pc' = "done" /\ ret' = Nil
       ELSE pc' = "loop" /\ ret' = ret
  /\ UNCHANGED <<command, logged, orbPath, after, currentCursor, result, idx,
                 outstanding, traced, sent, pages, cursorBefore, snap>>
  /\ UNCHANGED valVars

\* variant of ListCheck: the test of HasNextPage is inverted
ListCheckInverted ==
  /\ command = "list" /\ pc = "edges"
  /\ idx = Len(result.edges)
  /\ IF result.hnp
       THEN pc' = "done" /\ ret' = Nil
       ELSE pc' = "loop" /\ ret' = ret
  /\ UNCHANGED <<command, logged, orbPath, after, currentCursor, result, idx,
                 outstanding, traced, sent, pages, cursorBefore, snap>>
  /\ UNCHANGED valVars

\* if !result.Orbs.PageInfo.HasNextPage { break } ... return nil
ListCheck ==
  /\ command = "list" /\ pc = "edges"
  /\ idx = Len(result.edges)
  /\ IF ~result.hnp
       THEN pc' = "done" /\ ret' = Nil
       ELSE pc' = "loop" /\ ret' = ret
  /\ UNCHANGED <<command, logged, orbPath, after, currentCursor, result, idx,
                 outstanding, traced, sent, pages, cursorBefore, snap>>
  /\ UNCHANGED valVars

\* ----------------------------------------------------------- processErrors
\* variant of WriteErrors: the line of a message ends without the comma
RECURSIVE WriteErrorsNoComma(_, _, _)
WriteErrorsNoComma(errors, i, buffer) ==
  IF i > Len(errors)
    THEN buffer
    ELSE WriteErrorsNoComma(errors, i + 1,
                            ((buffer \o <<"-", "-", " ">>) \o errors[i]) \o <<"\n">>)

\* variant of WriteErrors: every line is written from the first entry
RECURSIVE WriteErrorsFirstEntry(_, _, _)
WriteErrorsFirstEntry(errors, i, buffer) ==
  IF i > Len(errors)
    THEN buffer
    ELSE WriteErrorsFirstEntry(errors, i + 1,
                               ((buffer \o <<"-", "-", " ">>) \o errors[1]) \o <<",", "\n">>)

\* the loop of processErrors: buffer after the entries from position i on
\* have been written
RECURSIVE WriteErrors(_, _, _)
WriteErrors(errors, i, buffer) ==
  IF i > Len(errors)
    THEN buffer
    ELSE WriteErrors(errors, i + 1,
                     ((buffer \o <<"-", "-", " ">>) \o errors[i]) \o <<",", "\n">>)

\* variant of processErrors: without errors there is nothing to report
processErrorsNilOnEmpty(resp) ==
  IF resp.errors = <<>>
    THEN Nil
    ELSE ErrorsNew(WriteErrors(resp.errors, 1, <<"\n">>))

\* response.processErrors()
processErrors(resp) == ErrorsNew(WriteErrors(resp.errors, 1, <<"\n">>))

\* ------------------------------------------------------------- loadOrbYaml
\* file: what ioutil.ReadFile(path) delivers
Files ==
  { [ok |-> TRUE, content |-> d, err |-> <<>>] : d \in Docs } \cup
  { [ok |-> FALSE, content |-> <<>>, err |-> e] : e \in ReadErrs }

\* variant of loadOrbYaml: the read error is wrapped without the path
loadOrbYamlNoPath(path, file) ==
  IF ~file.ok
    THEN [orb |-> <<>>,
          err |-> ErrorsWrap(ErrorsNew(file.err), StrCouldNotLoadOrbFileAt)]
    ELSE [orb |-> file.content, err |-> Nil]

\* loadOrbYaml(path), given what ioutil.ReadFile(path) delivers
loadOrbYaml(path, file) ==
  IF ~file.ok
    THEN [orb |-> <<>>,
          err |-> ErrorsWrap(ErrorsNew(file.err), StrCouldNotLoadOrbFileAt \o path)]
    ELSE [orb |-> file.content, err |-> Nil]

\* -------------------------------------------------------- orbValidateQuery
\* what queryAPI does with &response: kind "ok" returns nil, kind "fail"
\* returns an error and may have written any part of the response
queryAPI(kind, e, decoded) ==
  [response |-> decoded,
   err |-> IF kind = "fail" THEN ErrorsNew(e) ELSE Nil]

\* orbValidateQuery, from the call in validateOrb/expandOrb to its return
OrbValidateQuery ==
  /\ command \in {"validate", "expand"} /\ pc = "call"
  /\ \E file \in Files, kind \in {"ok", "fail"}, e \in TransportErrs,
        decoded \in OrbConfigs :
       LET loaded == loadOrbYaml(orbPath, file)
           q == queryAPI(kind, e, decoded)
       IN  /\ read' = Append(read, file)
           /\ IF loaded.err # Nil
             THEN /\ kind = "ok" /\ decoded = CHOOSE x \in OrbConfigs : TRUE
                  /\ e = CHOOSE x \in TransportErrs : TRUE
                  /\ qres' = FALSE
                  /\ qerr' = loaded.err
                  /\ UNCHANGED <<response, queries, apiErr>>
             ELSE /\ kind = "ok" => e = CHOOSE x \in TransportErrs : TRUE
                  /\ queries' = Append(queries, loaded.orb)
                  /\ response' = q.response
                  /\ apiErr' = q.err
                  /\ IF q.err # Nil
                       THEN /\ qres' = FALSE
                            /\ qerr' = ErrorsWrap(q.err, StrUnableToValidateOrb)
                       ELSE /\ qres' = TRUE
                            /\ qerr' = Nil
  /\ pc' = "returned"
  /\ UNCHANGED <<command, ret, logged, orbPath, traced>>
  /\ UNCHANGED listVars

\* variant of validateOrbResult: Valid is tested before err
validateOrbResultValidFirst(err, resp, path) ==
  IF ~resp.valid
    THEN [ret |-> processErrors(resp), log |-> <<>>]
    ELSE IF err # Nil
      THEN [ret |-> err, log |-> <<>>]
      ELSE [ret |-> Nil, log |-> <<(StrOrbAt \o path) \o StrIsValid>>]

\* variant of validateOrbResult: reported errors count as invalid
validateOrbResultChecksErrors(err, resp, path) ==
  IF err # Nil
    THEN [ret |-> err, log |-> <<>>]
    ELSE IF ~resp.valid \/ resp.errors # <<>>
      THEN [ret |-> processErrors(resp), log |-> <<>>]
      ELSE [ret |-> Nil, log |-> <<(StrOrbAt \o path) \o StrIsValid>>]

\* validateOrb after orbValidateQuery has returned (err, response):
\* the value it returns and the lines it logs
validateOrbResult(err, resp, path) ==
  IF err # Nil
    THEN [ret |-> err, log |-> <<>>]
    ELSE IF ~resp.valid
      THEN [ret |-> processErrors(resp), log |-> <<>>]
      ELSE [ret |-> Nil, log |-> <<(StrOrbAt \o path) \o StrIsValid>>]

\* variant of expandOrbResult: the expanded document is not logged
expandOrbResultLogsNothing(err, resp) ==
  IF err # Nil
    THEN [ret |-> err, log |-> <<>>]
    ELSE IF ~resp.valid
      THEN [ret |-> processErrors(resp), log |-> <<>>]
      ELSE [ret |-> Nil, log |-> <<>>]

\* expandOrb after orbValidateQuery has returned (err, response)
expandOrbResult(err, resp) ==
  IF err # Nil
    THEN [ret |-> err, log |-> <<>>]
    ELSE IF ~resp.valid
      THEN [ret |-> processErrors(resp), log |-> <<>>]
      ELSE [ret |-> Nil, log |-> <<resp.outputYaml>>]

ValidateOrb ==
  /\ command = "validate" /\ pc = "returned"
  /\ ret' = validateOrbResult(qerr, response, orbPath).ret
  /\ logged' = logged \o validateOrbResult(qerr, response, orbPath).log
  /\ pc' = "done"
  /\ UNCHANGED <<command, orbPath, traced>>
  /\ UNCHANGED listVars
  /\ UNCHANGED valVars

ExpandOrb ==
  /\ command = "expand" /\ pc = "returned"
  /\ ret' = expandOrbResult(qerr, response).ret
  /\ logged' = logged \o expandOrbResult(qerr, response).log
  /\ pc' = "done"
  /\ UNCHANGED <<command, orbPath, traced>>
  /\ UNCHANGED listVars
  /\ UNCHANGED valVars

Next ==
  \/ ListRequest \/ ListRun \/ ListEdge \/ ListCheck
  \/ OrbValidateQuery \/ ValidateOrb \/ ExpandOrb

Spec == Init /\ [][Next]_vars

\* the commands run to completion: a blocking call always returns and the
\* single thread always takes its next step
LiveSpec == InitUntraced /\ [][Next]_vars /\ WF_vars(Next)

\* ================================================================ properties
\* ------------------------------------------------------------- vocabulary
\* a response that is a page: Run returned nil and the payload held the page
IsPage(r) == r.kind = "ok" /\ r.data

\* the lines one page stands for, in the order of its edges
PageLines(edges) == [k \in 1..Len(edges) |-> OrbLine(edges[k].name)]

\* the lines of the pages ps[1..n], page after page
RECURSIVE ConcatLines(_, _)
ConcatLines(ps, n) ==
  IF n = 0 THEN <<>> ELSE ConcatLines(ps, n - 1) \o PageLines(ps[n].edges)

\* cursor of the last entry of the latest non-empty page among ps[1..n],
\* the empty string when there is none
RECURSIVE LastCursor(_, _)
LastCursor(ps, n) ==
  IF n = 0 THEN ""
  ELSE IF IsPage(ps[n]) /\ ps[n].edges # <<>>
         THEN ps[n].edges[Len(ps[n].edges)].cursor
         ELSE LastCursor(ps, n - 1)

\* t occurs in s as a contiguous run of characters
Contains(s, t) ==
  \E k \in 0..(Len(s) - Len(t)) : SubSeq(s, k + 1, k + Len(t)) = t

\* s begins with t
StartsWith(s, t) == Len(s) >= Len(t) /\ SubSeq(s, 1, Len(t)) = t

\* the validation failures: what errors.New makes of a message that opens
\* with the blank line of processErrors
IsValidationFailure(e) ==
  e.status = "error" /\ ~e.wrapped /\ StartsWith(e.msg, <<"\n">>)

\* a transport error wrapped with the context of the operation
IsWrappedTransportError(e, context) ==
  /\ e.status = "error" /\ e.wrapped
  /\ \E t \in TransportErrs : e.msg = (context \o <<":", " ">>) \o t

\* -------------------------------------------------------------------- C1
\* C1: when every response so far was a page, listOrbs stops exactly at the
\* first page whose hasNextPage is false: it has then issued as many requests
\* as pages arrived, has logged the entries of all pages in page order and in
\* the order inside each page, and returns nil; it never returns before that
\* page and never issues a request after it.
C1_PagesConcatenated ==
  (command = "list" /\ \A k \in 1..Len(pages) : IsPage(pages[k])) =>
    LET n == Len(pages) IN
    /\ \A k \in 1..(n - 1) : pages[k].hnp
    /\ pc = "done" =>
         /\ n >= 1 /\ ~pages[n].hnp
         /\ Len(sent) = n
         /\ logged = ConcatLines(pages, n)
         /\ ret = Nil
    /\ (n >= 1 /\ ~pages[n].hnp) =>
         /\ pc \in {"edges", "done"}
         /\ Len(sent) = n
    /\ pc = "loop" => logged = ConcatLines(pages, n)

C1_Witness ==
  /\ command = "list" /\ pc = "done" /\ ret = Nil
  /\ Len(pages) = 3 /\ \A k \in 1..3 : IsPage(pages[k])
  /\ Len(pages[1].edges) = 2 /\ pages[1].edges[1] # pages[1].edges[2]
  /\ Len(pages[3].edges) = 1
  /\ Len(logged) >= 4

\* -------------------------------------------------------------------- C2
\* C2: the first request carries after = "", and the request that follows a
\* non-empty page carries the cursor of that page's last entry.
C2_CursorForwarded ==
  command = "list" =>
    /\ Len(sent) >= 1 => sent[1] = ""
    /\ \A k \in 1..Len(pages) :
         (IsPage(pages[k]) /\ pages[k].edges # <<>> /\ k < Len(sent)) =>
           sent[k + 1] = pages[k].edges[Len(pages[k].edges)].cursor

C2_Witness ==
  /\ command = "list" /\ Len(sent) = 3
  /\ IsPage(pages[1]) /\ Len(pages[1].edges) = 2
  /\ pages[1].edges[1].cursor = "c2" /\ pages[1].edges[2].cursor = "c1"
  /\ IsPage(pages[2]) /\ Len(pages[2].edges) = 1
  /\ sent = <<"", "c1", pages[2].edges[1].cursor>>
  /\ sent[3] = "c2"

\* -------------------------------------------------------------------- C3
\* C3: a page without edges whose hasNextPage is true does not end the
\* traversal, adds no line to the output, and the request after it carries
\* the cursor held when the page arrived: the last cursor of the latest
\* non-empty page, or "" when there was none.
C3_EmptyPageContinues ==
  command = "list" =>
    \A k \in 1..Len(pages) :
      (IsPage(pages[k]) /\ pages[k].edges = <<>> /\ pages[k].hnp) =>
        /\ (k = Len(pages)) => (pc # "done" /\ logged = snap[k])
        /\ (k < Len(pages)) => snap[k + 1] = snap[k]
        /\ (k < Len(sent)) =>
             /\ sent[k + 1] = cursorBefore[k]
             /\ sent[k + 1] = LastCursor(pages, k - 1)

C3_Witness ==
  /\ command = "list" /\ Len(sent) = 3
  /\ IsPage(pages[1]) /\ Len(pages[1].edges) = 2
  /\ IsPage(pages[2]) /\ pages[2].edges = <<>> /\ pages[2].hnp
  /\ sent[3] = "c2"

\* -------------------------------------------------------------------- C4
\* C4 as stated: every call of listOrbs terminates, whatever the server does.
C4_AlwaysTerminates == <>(pc = "done")

\* C4 amended: listOrbs returns only on a failed round-trip or on a decoded
\* hasNextPage = false, and each of the two makes it return; while the
\* server keeps answering hasNextPage = true it keeps issuing requests.
C4_TerminatesOnLastPage ==
  /\ [](( command = "list" /\ pc = "done") =>
          (ret.status = "error" \/ (ret = Nil /\ ~result.hnp)))
  /\ [](( command = "list" /\ pc = "loop") => (result = ZeroOrbList \/ result.hnp))
  /\ (command = "list" /\ pc = "edges" /\ ~result.hnp) ~> (pc = "done")
  /\ (command = "list" /\ pc = "edges" /\ result.hnp) ~> (pc = "run")

C4_Witness ==
  /\ command = "list" /\ ~traced /\ pc = "done" /\ ret = Nil
  /\ currentCursor = "c2" /\ Len(result.edges) = 2 /\ ~result.hnp

\* -------------------------------------------------------------------- C5
\* C5: a failed round-trip is the last one: listOrbs returns an error, the
\* output is what it was when the failure arrived (for pages only: the
\* entries of the pages before it), no request is outstanding and none
\* follows.
C5_FailureAborts ==
  command = "list" =>
    \A k \in 1..Len(pages) :
      pages[k].kind = "fail" =>
        /\ k = Len(pages) /\ Len(sent) = k
        /\ pc = "done" /\ outstanding = 0
        /\ ret.status = "error"
        /\ logged = snap[k]
        /\ (\A j \in 1..(k - 1) : IsPage(pages[j])) =>
             logged = ConcatLines(pages, k - 1)

C5_Witness ==
  /\ command = "list" /\ pc = "done" /\ Len(pages) = 3
  /\ IsPage(pages[1]) /\ IsPage(pages[2])
  /\ pages[3].kind = "fail" /\ pages[3].data /\ Len(pages[3].edges) = 2
  /\ Len(logged) = 3

\* -------------------------------------------------------------------- C6
\* C6: when the first round-trip fails, nothing is logged and the error
\* returned is the transport error wrapped with "GraphQL query failed",
\* which is no validation failure.
C6_FirstFailure ==
  (command = "list" /\ Len(pages) >= 1 /\ pages[1].kind = "fail") =>
    /\ logged = <<>>
    /\ IsWrappedTransportError(ret, StrGraphQLQueryFailed)
    /\ ~IsValidationFailure(ret)
    /\ \A r \in OrbConfigs : ret.msg # processErrors(r).msg

C6_Witness ==
  /\ command = "list" /\ Len(pages) = 1 /\ pages[1].kind = "fail"
  /\ pages[1].data /\ pages[1].edges # <<>>
  /\ ret.cause = <<"\n", "-", "-", " ", "a", ",", "\n">>

\* -------------------------------------------------------------------- C7
\* C7: on a response with valid = true validateOrb returns nil and logs the
\* success line for the path, expandOrb returns nil and logs exactly
\* OutputYaml.
C7_ValidSucceeds ==
  (pc = "done" /\ command \in {"validate", "expand"} /\ qres /\ response.valid) =>
    /\ ret = Nil
    /\ command = "validate" => logged = <<(StrOrbAt \o orbPath) \o StrIsValid>>
    /\ command = "expand" => logged = <<response.outputYaml>>

C7_Witness ==
  /\ pc = "done" /\ command = "expand" /\ qres /\ response.valid
  /\ response.outputYaml = <<"x", ":", " ", "1">>
  /\ response.errors # <<>>

\* -------------------------------------------------------------------- C8
\* C8: on a response with valid = false both commands log nothing and fail
\* with the same validation failure, whose message contains every message
\* of the response.
C8_InvalidFails ==
  (pc = "done" /\ command \in {"validate", "expand"} /\ qres /\ ~response.valid) =>
    /\ IsValidationFailure(ret)
    /\ \A k \in 1..Len(response.errors) : Contains(ret.msg, response.errors[k])
    /\ logged = <<>>
    /\ validateOrbResult(qerr, response, orbPath).ret = ret
    /\ expandOrbResult(qerr, response).ret = ret

C8_Witness ==
  /\ pc = "done" /\ command = "expand" /\ qres /\ ~response.valid
  /\ response.errors = << <<"b">>, <<"a">> >>

\* -------------------------------------------------------------------- C9
\* the message the format prescribes for the errors from position i on
RECURSIVE ErrorLines(_, _)
ErrorLines(errors, i) ==
  IF i > Len(errors) THEN <<>>
  ELSE (<<"-", "-", " ">> \o errors[i] \o <<",", "\n">>) \o ErrorLines(errors, i + 1)

\* C9: the message of a validation failure is "\n" followed, for each
\* error in order, by "-- " + message + ",\n"; for ["a", "b"] it is
\* "\n-- a,\n-- b,\n".
C9_ErrorFormat ==
  (pc = "done" /\ command \in {"validate", "expand"} /\ qres /\ ~response.valid) =>
    /\ ret.msg = <<"\n">> \o ErrorLines(response.errors, 1)
    /\ response.errors = << <<"a">>, <<"b">> >> =>
         ret.msg = <<"\n", "-", "-", " ", "a", ",", "\n",
                     "-", "-", " ", "b", ",", "\n">>

C9_Witness ==
  /\ pc = "done" /\ command = "validate" /\ qres /\ ~response.valid
  /\ response.errors = << <<"a">>, <<"b">> >>
  /\ Len(ret.msg) = 13

\* ------------------------------------------------------------------- C10
\* C10: when queryAPI fails, both commands return its error wrapped with
\* "Unable to validate orb", which is no validation failure; nothing is
\* logged, whatever the response variable holds.
C10_TransportFailure ==
  (pc = "done" /\ command \in {"validate", "expand"} /\ apiErr # Nil) =>
    /\ IsWrappedTransportError(ret, StrUnableToValidateOrb)
    /\ ret.cause = apiErr.msg
    /\ ~IsValidationFailure(ret)
    /\ \A r \in OrbConfigs : ret.msg # processErrors(r).msg
    /\ logged = <<>>
    /\ ~qres

C10_Witness ==
  /\ pc = "done" /\ command = "validate" /\ apiErr # Nil
  /\ response.valid /\ response.errors # <<>>
  /\ apiErr.msg = <<"\n", "-", "-", " ", "a", ",", "\n">>

\* ------------------------------------------------------------------- C11
\* C11: on a response with valid = false and no errors both commands still
\* fail: the error returned is a validation failure whose message is the
\* blank line alone, nothing is logged and the return value is not nil.
C11_EmptyErrorsStillFail ==
  (pc = "done" /\ command \in {"validate", "expand"} /\ qres
     /\ ~response.valid /\ response.errors = <<>>) =>
    /\ ret # Nil /\ ret.status = "error"
    /\ IsValidationFailure(ret)
    /\ ret.msg = <<"\n">>
    /\ logged = <<>>

C11_Witness ==
  /\ pc = "done" /\ command = "expand" /\ qres
  /\ ~response.valid /\ response.errors = <<>>
  /\ response.outputYaml = <<"x", ":", " ", "1">>
  /\ ret.status = "error"

\* ------------------------------------------------------------------- C12
\* C12: once orbValidateQuery has returned a response, the outcome follows
\* the valid flag alone: the command returns nil exactly when valid is true,
\* and with valid = true and errors present it returns nil, logs its one
\* line and none of the errors shows in what it returns.
C12_ValidFlagDecides ==
  (pc = "done" /\ command \in {"validate", "expand"} /\ qres) =>
    /\ (ret = Nil) <=> response.valid
    /\ ret.status \in {"nil", "error"}
    /\ (response.valid /\ response.errors # <<>>) =>
         /\ ret.msg = <<>>
         /\ Len(logged) = 1
         /\ ret = validateOrbResult(qerr, [response EXCEPT !.errors = <<>>], orbPath).ret

C12_Witness ==
  /\ pc = "done" /\ command = "validate" /\ qres /\ ret = Nil
  /\ response.valid /\ Len(response.errors) = 2
  /\ Len(logged) = 1

\* ------------------------------------------------------------------- C13
\* C13: a round-trip whose Run returned nil logs exactly the entries of the
\* payload it received, forwards that payload's last cursor (the cursor it
\* held when the payload has no entry), and a page's own hasNextPage decides
\* whether the loop goes on; nothing an earlier round-trip decoded is logged
\* or used again.
C13_FreshPagePerRoundTrip ==
  command = "list" =>
    \A k \in 1..Len(pages) :
      pages[k].kind = "ok" =>
        LET own == PageLines(pages[k].edges) IN
        /\ Len(logged) <= Len(snap[k]) + Len(own) \/ k < Len(pages)
        /\ (k < Len(pages)) => snap[k + 1] = snap[k] \o own
        /\ (k = Len(pages) /\ pc \in {"loop", "run", "done"}) =>
             logged = snap[k] \o own
        /\ (k < Len(sent)) =>
             sent[k + 1] = IF own = <<>> THEN cursorBefore[k]
                           ELSE pages[k].edges[Len(own)].cursor
        /\ (IsPage(pages[k]) /\ k < Len(pages)) => pages[k].hnp
        /\ (IsPage(pages[k]) /\ k = Len(pages) /\ pc = "done") => ~pages[k].hnp

\* ------------------------------------------------------------------- C14
\* C14: whenever listOrbs stands between two round-trips, waits for a
\* response or has returned nil, its output is the entries of the payloads
\* received so far, payload after payload and in the order inside each:
\* nothing dropped, reordered, merged or added.
C14_OutputIsConcatenation ==
  (command = "list" /\ (pc \in {"loop", "run"} \/ (pc = "done" /\ ret = Nil))) =>
    logged = ConcatLines(pages, Len(pages))

\* ------------------------------------------------------------------- C15
\* C15: orbValidateQuery reads the file once.  When the read fails, no query
\* is issued and the command fails with an error whose message names
\* orbPath; when it succeeds, exactly one query is issued, and its orb
\* variable is the content read, unchanged.
C15_LoadThenOneQuery ==
  command \in {"validate", "expand"} =>
    /\ pc = "call" => (read = <<>> /\ queries = <<>>)
    /\ pc \in {"returned", "done"} =>
         /\ Len(read) = 1
         /\ IF ~read[1].ok
              THEN /\ queries = <<>> /\ apiErr = Nil /\ ~qres
                   /\ qerr.status = "error"
                   /\ qerr.msg = ((StrCouldNotLoadOrbFileAt \o orbPath) \o <<":", " ">>)
                                    \o read[1].err
                   /\ Contains(qerr.msg, orbPath)
                   /\ pc = "done" => (ret = qerr /\ logged = <<>>)
              ELSE queries = <<read[1].content>>

C15_Witness ==
  /\ command = "expand" /\ pc = "done" /\ Len(read) = 1 /\ ~read[1].ok
  /\ orbPath = StrDefaultPath /\ ret.status = "error" /\ queries = <<>>

\* C15, the other case: the file was read, one query carried its content
C15_WitnessLoaded ==
  /\ command = "validate" /\ pc = "done" /\ Len(read) = 1 /\ read[1].ok
  /\ queries = << <<"x", ":", " ", "1">> >>

\* ------------------------------------------------------------------- C16
\* C16: at most one request is outstanding, and only while client.Run is
\* being waited for; a request is issued only when every response before it
\* has arrived and every edge of the result in hand has been ranged over
\* (for a page: all its entries are in the output); after a page with
\* hasNextPage = false no request is issued.
C16_OneRequestAtATime ==
  command = "list" =>
    LET n == Len(pages) IN
    /\ outstanding \in {0, 1}
    /\ Len(sent) = n + outstanding
    /\ (outstanding = 1) <=> (pc = "run")
    /\ pc = "run" =>
         /\ idx = Len(result.edges)
         /\ (n >= 1 /\ IsPage(pages[n])) =>
              logged = snap[n] \o PageLines(pages[n].edges)
    /\ \A k \in 1..n : (IsPage(pages[k]) /\ ~pages[k].hnp) => Len(sent) = k

C16_Witness ==
  /\ command = "list" /\ pc = "run" /\ outstanding = 1
  /\ Len(sent) = 3 /\ Len(pages) = 2
  /\ IsPage(pages[2]) /\ Len(pages[2].edges) = 2
  /\ Len(logged) = 4

====
